---- MODULE Spec2Model ----
(***************************************************************************)
(* Verification model of usnistgov/cookiecutter-nist-python.               *)
(*                                                                         *)
(* The repository is a collection of independent programs; each gets its   *)
(* own specification over a shared tuple of variables:                     *)
(*   SpecContext  tools/copier_extensions.py (SmartDict, CookiecutterContext)*)
(*   SpecBake     hooks/post_gen_project.py, tests/conftest.py (baking)    *)
(*   SpecPipx     tools/pipxrun.py                                         *)
(***************************************************************************)
EXTENDS Integers, Sequences, FiniteSets, TLC

VARIABLES
    context,        \* the dict handed to CookiecutterNamespace.hook (SmartDict._init)
    computed_keys,  \* CookiecutterContext._computed_keys: name -> registered function
    now,            \* the wall clock's year, as datetime.datetime.now().year reads it
    lookups,        \* the lookups made on context["cookiecutter"], in order
    param,          \* the example configuration being created (request.param)
    tree,           \* the project directory cached_examples/<project_name>
    pc,             \* where the creation of the example stands
    hook_exit,      \* how the last run of the post-generation hook ended
    last,           \* the last operation applied to the project directory
    options,        \* pipxrun: the argparse.Namespace that _parse_args returns
    commands,       \* pipxrun: main's list of Command objects
    ran,            \* pipxrun: the calls of Command.run so far, in order
    main_pc,        \* pipxrun: where main stands
    prog,           \* tools: the script or session function this process runs
    tool_opts,      \* tools: its parsed options and arguments
    world,          \* tools: what it reads and writes outside the process
    mem,            \* tools: module-level state that outlives a call
    trace,          \* tools: the external commands and effects so far, in order
    status          \* tools: how far the process is, and how it ended

ctxVars == <<context, computed_keys, now, lookups>>

bakeVars == <<param, tree, pc, hook_exit, last>>

pipxVars == <<options, commands, ran, main_pc>>

toolVars == <<prog, tool_opts, world, mem, trace, status>>

vars ==
    <<context, computed_keys, now, lookups, param, tree, pc, hook_exit, last,
      options, commands, ran, main_pc, prog, tool_opts, world, mem, trace, status>>

(***************************************************************************)
(* Bounds                                                                  *)
(***************************************************************************)
MaxLookups == 2     \* lookups recorded per behaviour
FirstYear == 2026   \* the clock's year when the process starts
MaxTicks == 1       \* new years the clock may pass during one behaviour

(***************************************************************************)
(* Python values.  Every value is a record of one shape, so that any two   *)
(* can be compared: a str (s), a dict of str (m, pairs <<key, str>>), or   *)
(* the CookiecutterContext view object itself.                             *)
(***************************************************************************)
Str(s) == [kind |-> "str", s |-> s, m |-> {}]
Dict(m) == [kind |-> "dict", s |-> "", m |-> m]
View == [kind |-> "view", s |-> "", m |-> {}]
NoValue == [kind |-> "none", s |-> "", m |-> {}]

\* the outcome of an expression: a value, or a raised exception
Return(v) == [raised |-> "", val |-> v]
Raise(e) == [raised |-> e, val |-> NoValue]

\* dict.__getitem__ of a builtin dict: the value, or KeyError
dict_getitem(d, k) ==
    IF k \in DOMAIN d THEN Return(d[k]) ELSE Raise("KeyError")

\* dict.__setitem__: d[k] = v
dict_setitem(d, k, v) ==
    [x \in DOMAIN d \cup {k} |-> IF x = k THEN v ELSE d[x]]

\* str(int) for a non-negative int: its decimal digits
Digit(d) ==
    CASE d = 0 -> "0" [] d = 1 -> "1" [] d = 2 -> "2" [] d = 3 -> "3"
      [] d = 4 -> "4" [] d = 5 -> "5" [] d = 6 -> "6" [] d = 7 -> "7"
      [] d = 8 -> "8" [] d = 9 -> "9"

RECURSIVE str(_)
str(n) == IF n < 10 THEN Digit(n) ELSE str(n \div 10) \o Digit(n % 10)

(***************************************************************************)
(* tools/copier_extensions.py                                              *)
(***************************************************************************)

\* def __year(_): return str(datetime.datetime.now(tz=None).year)
\* The clock is read when the function is called.
__year(ctx, clock) == Return(Str(str(clock)))

\* def __answers(context): return context["_copier_conf"]["answers_file"]
__answers(ctx, clock) ==
    LET conf == dict_getitem(ctx, "_copier_conf")
    IN  IF conf.raised # "" THEN conf
        ELSE IF conf.val.kind # "dict" THEN Raise("TypeError")
        ELSE IF \E p \in conf.val.m : p[1] = "answers_file"
             THEN Return(Str((CHOOSE p \in conf.val.m : p[1] = "answers_file")[2]))
        ELSE Raise("KeyError")

\* calling the function object registered under a name
call(func, ctx, clock) ==
    CASE func = "__year" -> __year(ctx, clock)
      [] func = "__answers" -> __answers(ctx, clock)

\* SmartDict.register: cls._computed_keys[func.__name__] = func
register(keys, func) ==
    [x \in DOMAIN keys \cup {func} |-> IF x = func THEN func ELSE keys[x]]

\* SmartDict.__getitem__
SmartDict_getitem(init, keys, item, clock) ==
    IF item \in DOMAIN keys
    THEN call(keys[item], init, clock)
    ELSE dict_getitem(init, item)

\* SmartDict.__contains__
SmartDict_contains(init, keys, item) ==
    item \in DOMAIN init \/ item \in DOMAIN keys

\* SmartDict.__iter__: the keys it yields, in order, with repetitions
\* (a dict iterates in insertion order; the order is not modelled, so the
\* yielded keys are a bag: key -> number of times yielded)
SmartDict_iter(init, keys) ==
    [k \in DOMAIN init \cup DOMAIN keys |->
        (IF k \in DOMAIN init THEN 1 ELSE 0) + (IF k \in DOMAIN keys THEN 1 ELSE 0)]

\* SmartDict.__len__
SmartDict_len(init, keys) == Cardinality(DOMAIN keys) + Cardinality(DOMAIN init)

(***************************************************************************)
(* The contexts a caller may hand to the hook.                             *)
(***************************************************************************)
AnswersFile == ".copier-answers.yml"

\* values a caller may store under a key of the context
ValuesOf(k) ==
    CASE k = "_copier_conf" ->
            {Dict({<<"answers_file", AnswersFile>>}), Dict({})}
      [] k = "project_name" -> {Str("testpackage")}
      [] k = "__year" -> {Str("1999")}

DirectKeys == {"project_name", "_copier_conf", "__year"}

\* the keys looked up: the direct ones, the computed ones, the view's own
\* key, and one that nothing declares
LookupKeys == DirectKeys \cup {"__answers", "cookiecutter", "undeclared"}

Contexts ==
    UNION {
        {c \in [D -> UNION {ValuesOf(k) : k \in D}] :
            \A k \in D : c[k] \in ValuesOf(k)} : D \in SUBSET DirectKeys}

\* the class after the module is imported: __init_subclass__ makes the
\* registry, the two decorators fill it
ImportedKeys == register(register(<<>>, "__year"), "__answers")

\* no example is being created while the context is exercised
BakeIdle ==
    /\ param = <<>>
    /\ tree = <<>>
    /\ pc = "start"
    /\ hook_exit = ""
    /\ last = "none"

\* pipxrun is not running while the context is exercised or an example created
PipxIdle ==
    /\ options = <<>>
    /\ commands = <<>>
    /\ ran = <<>>
    /\ main_pc = "start"

\* no tool is running while the context is exercised, an example created or
\* pipxrun run
ToolsIdle ==
    /\ prog = ""
    /\ tool_opts = <<>>
    /\ world = <<>>
    /\ mem = <<>>
    /\ trace = <<>>
    /\ status = "idle"

InitContext ==
    /\ context \in Contexts
    /\ computed_keys = ImportedKeys
    /\ now = FirstYear
    /\ lookups = <<>>
    /\ BakeIdle
    /\ PipxIdle
    /\ ToolsIdle

\* CookiecutterNamespace.hook(context)
hook ==
    /\ "cookiecutter" \notin DOMAIN context
    /\ context' = dict_setitem(context, "cookiecutter", View)
    /\ UNCHANGED <<computed_keys, now, lookups, bakeVars, pipxVars, toolVars>>

\* lookup as a memoising __getitem__ would do it: the value of a computed key
\* is stored in the wrapped dict (self._init[item] = value) before it is returned
lookup_memoising(item) ==
    /\ "cookiecutter" \in DOMAIN context
    /\ Len(lookups) < MaxLookups
    /\ LET out == SmartDict_getitem(context, computed_keys, item, now)
       IN  /\ lookups' = Append(lookups,
                [item |-> item,
                 direct |-> item \in DOMAIN context,
                 computed |-> item \in DOMAIN computed_keys,
                 declared |-> SmartDict_contains(context, computed_keys, item),
                 at |-> now,
                 out |-> out])
           /\ context' = IF item \in DOMAIN computed_keys /\ out.raised = ""
                         THEN dict_setitem(context, item, out.val)
                         ELSE context
    /\ UNCHANGED <<computed_keys, now, bakeVars, pipxVars, toolVars>>

\* a template reads cookiecutter[item], that is context["cookiecutter"][item]:
\* one call of SmartDict.__getitem__, which writes nothing
lookup(item) ==
    /\ "cookiecutter" \in DOMAIN context
    /\ Len(lookups) < MaxLookups
    /\ lookups' = Append(lookups,
            [item |-> item,
             direct |-> item \in DOMAIN context,
             computed |-> item \in DOMAIN computed_keys,
             declared |-> SmartDict_contains(context, computed_keys, item),
             at |-> now,
             out |-> SmartDict_getitem(context, computed_keys, item, now)])
    /\ UNCHANGED <<context, computed_keys, now, bakeVars, pipxVars, toolVars>>

\* the caller stores context[k] = v after the hook: a new key, or a new value
\* of a key.  The view holds the context itself (self._init = init), not a
\* copy of it.
context_setitem(k, v) ==
    /\ "cookiecutter" \in DOMAIN context
    /\ IF k \in DOMAIN context THEN context[k] # v ELSE TRUE
    /\ context' = dict_setitem(context, k, v)
    /\ UNCHANGED <<computed_keys, now, lookups, bakeVars, pipxVars, toolVars>>

\* the year changes while the process runs
tick ==
    /\ now < FirstYear + MaxTicks
    /\ now' = now + 1
    /\ UNCHANGED <<context, computed_keys, lookups, bakeVars, pipxVars, toolVars>>

NextContext ==
    \/ hook
    \/ \E item \in LookupKeys : lookup(item)
    \/ \E k \in DirectKeys : \E v \in ValuesOf(k) : context_setitem(k, v)
    \/ tick

SpecContext == InitContext /\ [][NextContext]_vars

(***************************************************************************)
(* Claims about the context (checked under SpecContext)                    *)
(***************************************************************************)

\* C2: looking up a declared key (a direct key of the wrapped mapping or a
\* registered computed key) never fails, and looking up any other key fails
\* with KeyError.
C2_LookupTotalOnDeclared ==
    \A i \in 1..Len(lookups) :
        /\ (lookups[i].direct \/ lookups[i].computed) => lookups[i].out.raised = ""
        /\ ~(lookups[i].direct \/ lookups[i].computed) =>
                lookups[i].out.raised = "KeyError"

\* C3: the clock is read when the context is constructed: every lookup of
\* the year key on one CookiecutterContext returns the same value, whatever
\* the clock does between two lookups.
C3_YearReadOnce ==
    \A i, j \in 1..Len(lookups) :
        (lookups[i].item = "__year" /\ lookups[j].item = "__year") =>
            lookups[i].out = lookups[j].out

\* C4: a computed key whose name equals a direct key of the wrapped context
\* is rejected with a key-collision error; no lookup of such a key returns
\* the computed or the direct value.
C4_CollisionRejected ==
    \A i \in 1..Len(lookups) :
        (lookups[i].direct /\ lookups[i].computed) =>
            lookups[i].out.raised = "KeyCollisionError"

\* C5: a lookup of any key on the CookiecutterContext, whatever came before
\* it, leaves the wrapped context mapping and the computed-key registry
\* unchanged.
C5_LookupWritesNothing ==
    [][(lookups' # lookups) =>
        (context' = context /\ computed_keys' = computed_keys)]_vars

\* C5 witness: a direct key and a computed key have both been looked up,
\* one after the other, and both lookups returned a value.
C5_Witness ==
    /\ Len(lookups) >= 2
    /\ \E i, j \in 1..Len(lookups) :
        /\ i < j
        /\ lookups[i].computed /\ lookups[i].out.raised = ""
        /\ lookups[j].direct /\ ~lookups[j].computed /\ lookups[j].out.raised = ""

(***************************************************************************)
(* Strings whose characters the code inspects (lower(), "in", +=) are      *)
(* sequences of one-character strings.                                     *)
(***************************************************************************)
S_testpackage == <<"t", "e", "s", "t", "p", "a", "c", "k", "a", "g", "e">>
S_book == <<"b", "o", "o", "k">>
S_furo == <<"f", "u", "r", "o">>
S_nocli == <<"n", "o", "c", "l", "i">>
S_typer == <<"t", "y", "p", "e", "r">>
S_click == <<"c", "l", "i", "c", "k">>
S_argparse == <<"a", "r", "g", "p", "a", "r", "s", "e">>
S_none == <<"n", "o", "n", "e">>
S_cookie == <<"c", "o", "o", "k", "i", "e">>
S_copier == <<"c", "o", "p", "i", "e", "r">>
S_Click == <<"C", "l", "i", "c", "k">>
S_Typer == <<"T", "y", "p", "e", "r">>
S_default == <<"d", "e", "f", "a", "u", "l", "t">>
S_sphinx_book_theme ==
    <<"s", "p", "h", "i", "n", "x", "_", "b", "o", "o", "k", "_", "t", "h", "e", "m", "e">>
S_no == <<"n", "o">>
S_long_package_name ==
    <<"-", "l", "o", "n", "g", "-", "p", "a", "c", "k", "a", "g", "e", "-", "n", "a", "m", "e">>
S_dash == <<"-">>

\* str.lower() on one character
LowerChar(c) ==
    CASE c = "A" -> "a" [] c = "B" -> "b" [] c = "C" -> "c" [] c = "D" -> "d"
      [] c = "E" -> "e" [] c = "F" -> "f" [] c = "G" -> "g" [] c = "H" -> "h"
      [] c = "I" -> "i" [] c = "J" -> "j" [] c = "K" -> "k" [] c = "L" -> "l"
      [] c = "M" -> "m" [] c = "N" -> "n" [] c = "O" -> "o" [] c = "P" -> "p"
      [] c = "Q" -> "q" [] c = "R" -> "r" [] c = "S" -> "s" [] c = "T" -> "t"
      [] c = "U" -> "u" [] c = "V" -> "v" [] c = "W" -> "w" [] c = "X" -> "x"
      [] c = "Y" -> "y" [] c = "Z" -> "z" [] OTHER -> c

\* str.lower(), the Jinja filter |lower
lower(s) == [i \in 1..Len(s) |-> LowerChar(s[i])]

\* Python's  sub in s  for two str
str_in(sub, s) ==
    \E i \in 1..(Len(s) - Len(sub) + 1) : SubSeq(s, i, i + Len(sub) - 1) = sub

\* str.replace(old, new) for single characters
replace(s, old, new) == [i \in 1..Len(s) |-> IF s[i] = old THEN new ELSE s[i]]

(***************************************************************************)
(* tests/conftest.py: the example configurations                           *)
(***************************************************************************)
SPHINX_THEMES_AND_CLI ==
    {<<S_book, S_nocli>>, <<S_book, S_typer>>, <<S_book, S_click>>, <<S_furo, S_typer>>}

MARKER_MAP(k) ==
    CASE k = S_furo -> S_furo
      [] k = S_book -> S_sphinx_book_theme
      [] k = S_nocli -> S_none
      [] k = S_click -> S_click
      [] k = S_typer -> S_typer

\* def _update_project_name(d, style)
_update_project_name(d, style) ==
    IF style # S_cookie
    THEN [d EXCEPT !.project_name = @ \o S_dash \o style]
    ELSE d

\* the dict d built in the loop body for one style and one (theme, cli)
param_d(style, theme, cli) ==
    _update_project_name(
        [project_name |-> S_testpackage \o S_dash \o theme \o S_dash \o cli,
         style |-> style,
         sphinx_theme |-> MARKER_MAP(theme),
         command_line_interface |-> MARKER_MAP(cli)],
        style)

\* the second dict appended for (book, nocli): the long project name
param_longname(d, style) ==
    _update_project_name(
        [d EXCEPT !.project_name = @ \o S_long_package_name], style)

PARAMS ==
    UNION {
        LET d == param_d(style, tc[1], tc[2])
        IN  IF tc[1] = S_book /\ tc[2] = S_nocli
            THEN {d, param_longname(d, style)}
            ELSE {d}
        : style \in {S_cookie, S_copier}, tc \in SPHINX_THEMES_AND_CLI}

(***************************************************************************)
(* scripts/create_examples.py: the example configurations.  A key that     *)
(* EXTRA_CONTEXTS leaves out takes the template's default.                 *)
(***************************************************************************)
DefaultContext ==
    [sphinx_theme |-> S_sphinx_book_theme, command_line_interface |-> S_none]

\* def _project_name(name)
_project_name(name) == S_testpackage \o S_dash \o name

EXTRA_CONTEXTS ==
    {[name |-> S_default,
      sphinx_theme |-> DefaultContext.sphinx_theme,
      command_line_interface |-> DefaultContext.command_line_interface],
     [name |-> S_furo,
      sphinx_theme |-> S_furo,
      command_line_interface |-> S_Click],
     [name |-> S_typer,
      sphinx_theme |-> DefaultContext.sphinx_theme,
      command_line_interface |-> S_Typer]}

\* bake(name, extra_context=EXTRA_CONTEXTS[name]): always the cookiecutter style
SCRIPT_PARAMS ==
    {[project_name |-> _project_name(e.name),
      style |-> S_cookie,
      sphinx_theme |-> e.sphinx_theme,
      command_line_interface |-> e.command_line_interface] : e \in EXTRA_CONTEXTS}

(***************************************************************************)
(* The project directory cached_examples/<project_name>: path -> node.     *)
(* A path is a sequence of segments; a segment is literal text around an   *)
(* optional rendering of {{ cookiecutter.project_slug }}.                  *)
(***************************************************************************)
Seg(pre, slug, post) == [pre |-> pre, slug |-> slug, post |-> post]
Lit(name) == Seg(name, <<>>, "")

NoContent == [tmpl |-> "", cli |-> <<>>, slug |-> <<>>]
File(content) == [kind |-> "file", content |-> content]
Directory == [kind |-> "dir", content |-> NoContent]

\* the proper prefixes of a path: the directories that hold it
Parents(path) == {SubSeq(path, 1, n) : n \in 1..(Len(path) - 1)}

\* writing the files `new` (path -> content) into the tree, making their
\* directories, replacing what is there
write_files(t, new) ==
    LET dirs == UNION {Parents(q) : q \in DOMAIN new}
    IN  [q \in DOMAIN t \cup DOMAIN new \cup dirs |->
            IF q \in DOMAIN new THEN File(new[q])
            ELSE IF q \in dirs THEN Directory
            ELSE t[q]]

\* Path.mkdir(exist_ok=True) of a top-level directory
mkdir_exist_ok(t, name) ==
    IF <<Lit(name)>> \in DOMAIN t THEN t
    ELSE [q \in DOMAIN t \cup {<<Lit(name)>>} |->
            IF q = <<Lit(name)>> THEN Directory ELSE t[q]]

\* a top-level file some tool writes
touch(t, name) ==
    [q \in DOMAIN t \cup {<<Lit(name)>>} |->
        IF q = <<Lit(name)>> THEN File([NoContent EXCEPT !.tmpl = name]) ELSE t[q]]

\* Path.unlink() / shutil.rmtree(): the entry and everything under it
remove(t, path) ==
    [q \in {x \in DOMAIN t :
                ~(Len(x) >= Len(path) /\ SubSeq(x, 1, Len(path)) = path)} |-> t[q]]

(***************************************************************************)
(* The template tree                                                       *)
(***************************************************************************)

\* the slug the template derives from the project name
project_slug(project_name) ==
    replace(replace(lower(project_name), " ", "_"), "-", "_")

\* the path of cli.py in the rendered tree
cli_path(slug) == <<Lit("src"), Seg("", slug, ""), Lit("cli.py")>>

\* src/{{cookiecutter.project_slug}}/cli.py: the {% if %} branch taken
cli_branch(choice) ==
    IF lower(choice) \in {S_argparse, S_click, S_typer} THEN lower(choice) ELSE <<>>

\* the template files under src/, rendered for a configuration: path -> content
TemplateSources(d) ==
    LET slug == project_slug(d.project_name)
        uses_slug(name) == [tmpl |-> name, cli |-> <<>>, slug |-> slug]
        verbatim(name) == [NoContent EXCEPT !.tmpl = name]
    IN  (cli_path(slug) :> [tmpl |-> "cli.py",
                            cli |-> cli_branch(d.command_line_interface),
                            slug |-> slug])
        @@ (<<Lit("src"), Seg("", slug, ""), Lit("__init__.py")>> :> uses_slug("__init__.py"))
        @@ (<<Lit("src"), Seg("", slug, ""), Lit("core.py")>> :> verbatim("core.py"))
        @@ (<<Lit("tests"), Seg("test_", slug, ".py")>> :> uses_slug("test_.py"))
        @@ (<<Lit("tools"), Lit("noxtools.py")>> :> verbatim("noxtools.py"))
        @@ (<<Lit("noxfile.py")>> :> verbatim("noxfile.py"))

\* the other top-level files of the template
TemplateTopLevelFiles ==
    {".editorconfig", ".git_archival.txt", ".gitattributes", ".gitignore",
     ".markdownlint.yaml", ".pre-commit-config.yaml", ".prettierrc.yaml",
     ".prettierignore", ".python-version", ".pylintrc.toml", "pyproject.toml",
     "ruff.toml", "CHANGELOG.md", "CONTRIBUTING.md", "LICENSE", "Makefile",
     "README.md", "AUTHORS.md"}

\* the other top-level directories of the template, each with a file in it
TemplateTopLevelDirs ==
    {".github", "changelog.d", "config", "docs", "examples", "requirements"}

TemplateOthers(d) ==
    [q \in {<<Lit(f)>> : f \in TemplateTopLevelFiles}
            \cup {<<Lit(x), Lit("keep")>> : x \in TemplateTopLevelDirs} |->
        [NoContent EXCEPT !.tmpl = q[1].pre]]

\* the inclusion rule the copier template declares for cli.py
should_include(path, d) ==
    path = cli_path(project_slug(d.project_name)) =>
        lower(d.command_line_interface) # S_none

(***************************************************************************)
(* hooks/post_gen_project.py                                               *)
(***************************************************************************)

\* the outcome of an operation on the project directory
Done(t) == [raised |-> "", tree |-> t]
Failed(e, t) == [raised |-> e, tree |-> t]

\* the hook with a case-sensitive test and no |lower:
\* if "No" in "{{ cookiecutter.command_line_interface }}"
post_gen_project_case_sensitive(t, d) ==
    IF str_in(<<"N", "o">>, d.command_line_interface)
    THEN LET path == cli_path(project_slug(d.project_name))
         IN  IF path \in DOMAIN t
             THEN Done(remove(t, path))
             ELSE Failed("FileNotFoundError", t)
    ELSE Done(t)

\* the hook as cookiecutter renders it for a configuration and runs it in
\* the project directory: Path.unlink() raises when the file is missing
post_gen_project(t, d) ==
    IF str_in(S_no, lower(d.command_line_interface))
    THEN LET path == cli_path(project_slug(d.project_name))
         IN  IF path \in DOMAIN t
             THEN Done(remove(t, path))
             ELSE Failed("FileNotFoundError", t)
    ELSE Done(t)

(***************************************************************************)
(* tests/conftest.py, scripts/create_examples.py: baking                   *)
(***************************************************************************)

\* cookiecutter(template, output_dir, no_input, extra_context,
\* overwrite_if_exists): every template file is rendered and written, then
\* the post-generation hook runs; a failing hook fails the generation
cookiecutter(t, d, overwrite_if_exists) ==
    IF ~overwrite_if_exists /\ DOMAIN t # {}
    THEN Failed("OutputDirExistsException", t)
    ELSE LET rendered == write_files(t, TemplateSources(d) @@ TemplateOthers(d))
             hooked == post_gen_project(rendered, d)
         IN  IF hooked.raised = "" THEN hooked
             ELSE Failed("FailedHookException", hooked.tree)

\* copier.run_copy(src_path, dst_path, data, defaults=True): the included
\* template files and the answers file are rendered and written
run_copy(t, d) ==
    LET all == TemplateSources(d) @@ TemplateOthers(d)
        kept == {q \in DOMAIN all : should_include(q, d)}
    IN  Done(touch(write_files(t, [q \in kept |-> all[q]]), AnswersFile))

\* _bake_project with overwrite_if_exists left False
_bake_project_no_overwrite(t, d) ==
    LET r == IF d.style = S_cookie THEN cookiecutter(t, d, FALSE) ELSE run_copy(t, d)
    IN  IF r.raised # "" THEN r ELSE Done(mkdir_exist_ok(r.tree, ".nox"))

\* def _bake_project(project_name, ..., overwrite_if_exists=True, style)
_bake_project(t, d) ==
    LET r == IF d.style = S_cookie THEN cookiecutter(t, d, TRUE) ELSE run_copy(t, d)
    IN  IF r.raised # "" THEN r ELSE Done(mkdir_exist_ok(r.tree, ".nox"))

\* the top-level entries kept by _clean_directory when keep is None
CLEAN_KEEP == {".nox", ".venv", "uv.lock", "requirements"}

\* the name of a top-level entry, p.name
name_of(path) == path[1].pre

\* _clean_directory that forgets shutil.rmtree: only files are removed
_clean_directory_files_only(t) ==
    [q \in {x \in DOMAIN t :
                name_of(x) \in CLEAN_KEEP \/ t[<<x[1]>>].kind = "dir"} |-> t[q]]

\* def _clean_directory(directory_path, keep=None)
_clean_directory(t) ==
    [q \in {x \in DOMAIN t : name_of(x) \in CLEAN_KEEP} |-> t[q]]

\* def clean_directory(directory_path, keep=None) of create_examples.py
clean_directory(t) ==
    [q \in {x \in DOMAIN t : name_of(x) = ".nox"} |-> t[q]]

\* def bake(name, ...) of create_examples.py: cookiecutter, .nox, git init
bake(t, d) ==
    LET r == cookiecutter(t, d, TRUE)
    IN  IF r.raised # "" THEN r
        ELSE Done(mkdir_exist_ok(mkdir_exist_ok(r.tree, ".nox"), ".git"))

(***************************************************************************)
(* tests/test_bake_project.py: check_directory                             *)
(***************************************************************************)
IGNORE_PATHS == {"__pycache__", ".venv"}

FILES ==
    {".editorconfig", ".git_archival.txt", ".gitattributes", ".gitignore",
     ".markdownlint.yaml", ".pre-commit-config.yaml", ".prettierrc.yaml",
     ".prettierignore", ".python-version", ".pylintrc.toml", "pyproject.toml",
     "noxfile.py", "ruff.toml", "CHANGELOG.md", "CONTRIBUTING.md", "LICENSE",
     "Makefile", "README.md", "AUTHORS.md", "uv.lock"}

DIRECTORIES ==
    {".nox", ".git", ".github", "changelog.d", "config", "docs", "examples",
     "requirements", "src", "tests", "tools"}

\* the loop over Path(path).iterdir()
found_files(t) ==
    {name_of(q) : q \in {x \in DOMAIN t :
        Len(x) = 1 /\ name_of(x) \notin IGNORE_PATHS /\ t[x].kind # "dir"}}

found_directories(t) ==
    {name_of(q) : q \in {x \in DOMAIN t :
        Len(x) = 1 /\ name_of(x) \notin IGNORE_PATHS /\ t[x].kind = "dir"}}

\* test_baked_create: the extra_files it passes
extra_files(d) ==
    IF str_in(S_copier, d.project_name) THEN {AnswersFile} ELSE {}

\* check_directory(path, extra_files): both asserts pass
check_directory(t, extra) ==
    /\ FILES \cup extra = found_files(t)
    /\ DIRECTORIES = found_directories(t)

(***************************************************************************)
(* Creating an example: the example_path fixture of tests/conftest.py and  *)
(* the create/clean commands of scripts/create_examples.py                 *)
(***************************************************************************)

\* no context is exercised while an example is created
ContextIdle ==
    /\ context = <<>>
    /\ computed_keys = ImportedKeys
    /\ now = FirstYear
    /\ lookups = <<>>

InitBake ==
    /\ param \in PARAMS \cup SCRIPT_PARAMS
    /\ tree = <<>>
    /\ pc = "start"
    /\ hook_exit = ""
    /\ last = "none"
    /\ ContextIdle
    /\ PipxIdle
    /\ ToolsIdle

\* what a call of _bake_project / bake leaves in `last`: a bake that follows
\* a bake is a rebake
bake_label(r) ==
    IF r.raised # "" THEN "bake_failed"
    ELSE IF last \in {"bake", "rebake"} THEN "rebake"
    ELSE "bake"

\* the hook's exit after a generation: cookiecutter runs it, copier does not
hook_exit_after(r, d) ==
    IF d.style # S_cookie THEN hook_exit
    ELSE IF r.raised = "" THEN "ok"
    ELSE IF r.raised = "FailedHookException" THEN "FileNotFoundError"
    ELSE hook_exit

\* _create_example, first half: _clean_directory(path)
create_example_clean ==
    /\ param \in PARAMS
    /\ pc = "start"
    /\ tree' = _clean_directory(tree)
    /\ pc' = "cleaned"
    /\ last' = "clean"
    /\ UNCHANGED <<param, hook_exit, ctxVars, pipxVars, toolVars>>

\* _create_example, second half: _bake_project(...); the function may be
\* called again on the directory it has just baked
create_example_bake ==
    /\ param \in PARAMS
    /\ pc \in {"cleaned", "baked"}
    /\ LET r == _bake_project(tree, param)
       IN  /\ tree' = r.tree
           /\ pc' = IF r.raised = "" THEN "baked" ELSE "error"
           /\ last' = bake_label(r)
           /\ hook_exit' = hook_exit_after(r, param)
    /\ UNCHANGED <<param, ctxVars, pipxVars, toolVars>>

\* example_path: git init (unless .git exists) and git add .
fixture_git ==
    /\ param \in PARAMS
    /\ pc = "baked"
    /\ \/ /\ tree' = mkdir_exist_ok(tree, ".git")
          /\ pc' = "git"
       \/ /\ tree' = tree
          /\ pc' = "error"
    /\ last' = "git"
    /\ UNCHANGED <<param, hook_exit, ctxVars, pipxVars, toolVars>>

\* example_path: nox -s requirements; importing noxfile.py may leave a
\* __pycache__ directory behind
fixture_requirements ==
    /\ param \in PARAMS
    /\ pc = "git"
    /\ \/ /\ tree' \in {tree, mkdir_exist_ok(tree, "__pycache__")}
          /\ pc' = "requirements"
       \/ /\ tree' = tree
          /\ pc' = "error"
    /\ last' = "nox"
    /\ UNCHANGED <<param, hook_exit, ctxVars, pipxVars, toolVars>>

\* example_path: uv lock with VIRTUAL_ENV=<path>/.venv writes uv.lock and
\* may create the environment
fixture_lock ==
    /\ param \in PARAMS
    /\ pc = "requirements"
    /\ \/ /\ tree' \in {touch(tree, "uv.lock"),
                        mkdir_exist_ok(touch(tree, "uv.lock"), ".venv")}
          /\ pc' = "locked"
       \/ /\ tree' = tree
          /\ pc' = "error"
    /\ last' = "uv"
    /\ UNCHANGED <<param, hook_exit, ctxVars, pipxVars, toolVars>>

\* example_path: the second git add ., os.chdir(path), yield path
fixture_yield ==
    /\ param \in PARAMS
    /\ pc = "locked"
    /\ pc' \in {"ready", "error"}
    /\ last' = "git"
    /\ UNCHANGED <<param, tree, hook_exit, ctxVars, pipxVars, toolVars>>

\* what the other tests' nox sessions may leave at the top of the project
ARTIFACTS == {"dist", ".coverage"}

leave_artifacts(t, names) ==
    LET withdist == IF "dist" \in names THEN mkdir_exist_ok(t, "dist") ELSE t
    IN  IF ".coverage" \in names THEN touch(withdist, ".coverage") ELSE withdist

\* the pytest session ends (test_baked_test, test_baked_docs, ... have run
\* in the project); a later session creates the example again
session_end ==
    /\ param \in PARAMS
    /\ pc \in {"ready", "error"}
    /\ \E names \in SUBSET ARTIFACTS : tree' = leave_artifacts(tree, names)
    /\ pc' = "start"
    /\ last' = "tests"
    /\ UNCHANGED <<param, hook_exit, ctxVars, pipxVars, toolVars>>

\* create_examples.py create: bake(name, extra_context)
script_create ==
    /\ param \in SCRIPT_PARAMS
    /\ pc \in {"start", "ready"}
    /\ LET r == bake(tree, param)
       IN  /\ tree' = r.tree
           /\ pc' = IF r.raised = "" THEN "ready" ELSE "error"
           /\ last' = bake_label(r)
           /\ hook_exit' = hook_exit_after(r, param)
    /\ UNCHANGED <<param, ctxVars, pipxVars, toolVars>>

\* create_examples.py clean: clean_directory(OUTPUT_PATH / name)
script_clean ==
    /\ param \in SCRIPT_PARAMS
    /\ pc \in {"ready", "error"}
    /\ tree' = clean_directory(tree)
    /\ pc' = "start"
    /\ last' = "clean"
    /\ UNCHANGED <<param, hook_exit, ctxVars, pipxVars, toolVars>>

\* the rendered hooks/post_gen_project.py is run once more in the project
\* directory that a generation has produced
rerun_hook ==
    /\ param.style = S_cookie
    /\ last \in {"bake", "rebake", "hook"}
    /\ LET r == post_gen_project(tree, param)
       IN  /\ tree' = r.tree
           /\ hook_exit' = IF r.raised = "" THEN "ok" ELSE r.raised
    /\ last' = "hook"
    /\ UNCHANGED <<param, pc, ctxVars, pipxVars, toolVars>>

NextBake ==
    \/ create_example_clean
    \/ create_example_bake
    \/ fixture_git
    \/ fixture_requirements
    \/ fixture_lock
    \/ fixture_yield
    \/ session_end
    \/ script_create
    \/ script_clean
    \/ rerun_hook

SpecBake == InitBake /\ [][NextBake]_vars

(***************************************************************************)
(* Claims about baking (checked under SpecBake)                            *)
(***************************************************************************)

\* the project directory is as a successful generation by cookiecutter
\* (rendering, then the post-generation hook) has left it
Generated == param.style = S_cookie /\ last \in {"bake", "rebake"}

\* C1: after a generation (rendering followed by the post-generation hook)
\* has succeeded, src/<project_slug>/cli.py is absent when
\* command_line_interface is none, and present with its rendered content
\* when it is click or typer.
C1_CliFollowsChoice ==
    Generated =>
        LET path == cli_path(project_slug(param.project_name))
            choice == lower(param.command_line_interface)
        IN  /\ choice = S_none => path \notin DOMAIN tree
            /\ choice \in {S_click, S_typer} =>
                /\ path \in DOMAIN tree
                /\ tree[path] = File([tmpl |-> "cli.py", cli |-> choice,
                                      slug |-> project_slug(param.project_name)])

\* C1 witness: a generation with command_line_interface none has succeeded:
\* the rendered tree is there, the hook has run and cli.py is gone.
C1_Witness ==
    /\ Generated
    /\ hook_exit = "ok"
    /\ lower(param.command_line_interface) = S_none
    /\ <<Lit("src"), Seg("", project_slug(param.project_name), ""),
         Lit("__init__.py")>> \in DOMAIN tree

\* C6: the post-generation hook is idempotent: run again on the tree that
\* it has already processed, it succeeds and leaves the tree as it was.
C6_HookIdempotent ==
    [][(last' = "hook" /\ last \in {"bake", "rebake", "hook"} /\ hook_exit = "ok")
        => (hook_exit' = "ok" /\ tree' = tree)]_vars

MaxCommands == 1    \* -c/--command options on one command line
MaxSpecs == 1       \* -s/--spec options on one command line
MaxReqs == 1        \* requirement lines read from the -r/--requirement files

Names == {"mypy", "pyright"}

Versions == {"1.8.0", "1.9.0"}

Specifiers == {{}} \cup {{[op |-> "==", version |-> v]} : v \in Versions}

Requirement(name, specifier) == [name |-> name, specifier |-> specifier]

\* Python's None where a Requirement may stand
None == [name |-> "", specifier |-> {}]

Requirements == {Requirement(n, s) : n \in Names, s \in Specifiers}

\* version in specifier
contains(specifier, version) ==
    \A c \in specifier : c.op = "==" => version = c.version

\* str(SpecifierSet), str(Requirement)
str_SpecifierSet(specifier) ==
    IF specifier = {} THEN ""
    ELSE LET c == CHOOSE x \in specifier : TRUE IN c.op \o c.version

str_Requirement(req) == req.name \o str_SpecifierSet(req.specifier)

\* the finite sequences over S of length at most n
SeqsUpTo(S, n) == UNION {[1..k -> S] : k \in 0..n}

\* _parse_args: what the command line parses to.  A command string is held
\* as its first shlex token, the only part the choice of executable reads;
\* -v and -q are left at their defaults.
Options ==
    [commands : SeqsUpTo(Requirements, MaxCommands),
     requirements : SeqsUpTo(Requirements, MaxReqs),
     specs : SeqsUpTo(Requirements, MaxSpecs),
     pipx_only : BOOLEAN,
     verbosity : {0},
     quiet : {0}]

\* Command(name, args, spec)
Command(name, spec) == [name |-> name, spec |-> spec]

\* Command.from_command
from_command(command) ==
    LET spec == command
    IN Command(spec.name, IF spec.specifier # {} THEN spec ELSE None)

\* a variant of assign_spec in which the given spec always replaces the command's
assign_spec_overriding(self, spec, override) ==
    IF spec # None THEN Command(self.name, spec) ELSE self

\* Command.assign_spec
assign_spec(self, spec, override) ==
    IF spec # None /\ (override \/ self.spec = None)
    THEN Command(self.name, spec)
    ELSE self

\* {req.name: req for req in reqs}: a later entry replaces an earlier one
dict_of(reqs) ==
    [n \in {reqs[i].name : i \in DOMAIN reqs} |->
        LET i == CHOOSE i \in DOMAIN reqs :
                    /\ reqs[i].name = n
                    /\ \A j \in DOMAIN reqs : reqs[j].name = n => j <= i
        IN reqs[i]]

\* d.update(e)
dict_update(d, e) ==
    [k \in DOMAIN d \cup DOMAIN e |-> IF k \in DOMAIN e THEN e[k] ELSE d[k]]

\* d.get(k)
dict_get(d, k) == IF k \in DOMAIN d THEN d[k] ELSE None

\* main, from the parsed options to the commands about to be run
main_commands(opts) ==
    LET cmds == [i \in DOMAIN opts.commands |-> from_command(opts.commands[i])]
        command_names == {cmds[i].name : i \in DOMAIN cmds}
        from_requirements ==
            dict_of(SelectSeq(opts.requirements,
                              LAMBDA req : req.name \in command_names))
        specs == dict_update(from_requirements, dict_of(opts.specs))
    IN [i \in DOMAIN cmds |->
            assign_spec(cmds[i], dict_get(specs, cmds[i].name), FALSE)]

\* What the machine holds for a name when Command.run looks: nothing on PATH,
\* or an executable; the executable's first line names a Python that holds the
\* package's metadata at some version, or it does not (version "": a shell
\* wrapper, a node script, a binary).
NotInstalled == [found |-> FALSE, version |-> ""]

Installed ==
    {NotInstalled} \cup {[found |-> TRUE, version |-> v] : v \in Versions \cup {""}}

\* shutil.which(name): the path, or None (here "")
which(name, e) == IF e.found THEN "/usr/local/bin/" \o name ELSE ""

\* _get_command_version without its cache: the subprocess prints the version,
\* or it cannot be started or exits non-zero
_get_command_version_uncached(name, path, e) ==
    IF e.version # "" THEN Return(Str(e.version)) ELSE Raise("FileNotFoundError")

\* @lru_cache: the value returned by an earlier call with the same arguments
\* in this process, if there is one (a raised exception is not cached)
_get_command_version(name, path, e, calls) ==
    LET hits == {i \in DOMAIN calls :
                    /\ calls[i].command.name = name
                    /\ calls[i].exe_path = path
                    /\ calls[i].queried
                    /\ calls[i].raised = ""}
    IN IF hits # {}
       THEN Return(Str(calls[CHOOSE i \in hits : TRUE].exe_version))
       ELSE _get_command_version_uncached(name, path, e)

RECURSIVE repeat(_, _)
repeat(ch, n) == IF n = 0 THEN "" ELSE ch \o repeat(ch, n - 1)

\* Command._get_pipx_flags
_get_pipx_flags(verbosity) ==
    IF verbosity > 0 THEN <<"-" \o repeat("v", verbosity)>>
    ELSE IF verbosity < 0 THEN <<"-" \o repeat("q", 0 - verbosity)>>
    ELSE <<>>

\* Command.run up to the list `commands` it builds before the python flags,
\* the command's own arguments and the files are appended to it.  The result
\* records the call: what which returned (when it was called), whether the
\* version was asked for and what came back, the exception that left run (if
\* any) and the list.
run(self, verbosity, pipx_only, e, calls) ==
    LET exe_path == IF pipx_only THEN "" ELSE which(self.name, e)
        look == ~pipx_only /\ exe_path # ""
        queried == look /\ self.spec # None
        query == _get_command_version(self.name, exe_path, e, calls)
        exe_version == IF queried /\ query.raised = "" THEN query.val.s ELSE ""
        local ==
            /\ look
            /\ \/ self.spec = None
               \/ contains(self.spec.specifier, exe_version)
        pipx ==
            <<"pipx", "run">> \o _get_pipx_flags(verbosity)
            \o (IF self.spec # None
                THEN <<"--spec=" \o str_Requirement(self.spec)>> ELSE <<>>)
            \o <<self.name>>
        done == [command |-> self, exe_path |-> exe_path,
                 queried |-> queried, exe_version |-> exe_version,
                 raised |-> "", commands |-> <<>>]
    IN IF queried /\ query.raised # ""
       THEN [done EXCEPT !.raised = query.raised]
       ELSE [done EXCEPT !.commands = IF local THEN <<exe_path>> ELSE pipx]

\* the other programs are idle while pipxrun runs
InitPipx ==
    /\ options \in Options
    /\ commands = <<>>
    /\ ran = <<>>
    /\ main_pc = "start"
    /\ ContextIdle
    /\ BakeIdle
    /\ ToolsIdle

\* main: if not (options := _parse_args(args)).commands: return 0
main_return_0 ==
    /\ main_pc = "start"
    /\ options.commands = <<>>
    /\ main_pc' = "returned"
    /\ UNCHANGED <<options, commands, ran, ctxVars, bakeVars, toolVars>>

\* main: build the commands and give each its spec
main_setup ==
    /\ main_pc = "start"
    /\ options.commands # <<>>
    /\ commands' = main_commands(options)
    /\ main_pc' = "run"
    /\ UNCHANGED <<options, ran, ctxVars, bakeVars, toolVars>>

\* main: the next command.run(...) of the sum; an exception leaves main
main_run ==
    /\ main_pc = "run"
    /\ Len(ran) < Len(commands)
    /\ \E e \in Installed :
        LET self == commands[Len(ran) + 1]
            done == run(self, options.verbosity - options.quiet - 2,
                        options.pipx_only, e, ran)
        IN /\ ran' = Append(ran, done)
           /\ main_pc' = IF done.raised # "" THEN "raised"
                         ELSE IF Len(ran) + 1 = Len(commands) THEN "returned"
                         ELSE "run"
    /\ UNCHANGED <<options, commands, ctxVars, bakeVars, toolVars>>

NextPipx ==
    \/ main_return_0
    \/ main_setup
    \/ main_run

SpecPipx == InitPipx /\ [][NextPipx]_vars

(***************************************************************************)
(* Claims about pipxrun (checked under SpecPipx)                           *)
(***************************************************************************)

\* C9: every call of Command.run ends with a command line, and that line is
\* the local executable exactly when -x/--pipx was not passed, the executable
\* is on PATH, and the command has no spec or the installed version satisfies
\* its spec; in every other case the line is `pipx run`, with --spec=<spec>
\* when the command has a spec.
C9_LocalIffUsable ==
    \A i \in DOMAIN ran :
        LET done == ran[i]
            self == done.command
            usable ==
                /\ ~options.pipx_only
                /\ done.exe_path # ""
                /\ \/ self.spec = None
                   \/ /\ done.exe_version # ""
                      /\ contains(self.spec.specifier, done.exe_version)
            head == SubSeq(done.commands, 1, 2)
        IN /\ done.raised = ""
           /\ usable => done.commands = <<"/usr/local/bin/" \o self.name>>
           /\ ~usable =>
                /\ Len(done.commands) >= 3
                /\ head = <<"pipx", "run">>
                /\ done.commands[Len(done.commands)] = self.name
                /\ (self.spec # None) <=>
                     (\E k \in DOMAIN done.commands :
                        done.commands[k] = "--spec=" \o str_Requirement(self.spec))

\* C10: after main has given the commands their specs, the spec of a command
\* is the one embedded in its --command string if that has one, otherwise one
\* given by --spec for its name if there is one, otherwise one read from the
\* --requirement files for its name if there is one, otherwise none.
C10_SpecPrecedence ==
    main_pc # "start" =>
        /\ Len(commands) = Len(options.commands)
        /\ \A i \in DOMAIN commands :
            LET embedded == options.commands[i]
                by_spec == {options.specs[j] : j \in
                              {j \in DOMAIN options.specs :
                                 options.specs[j].name = embedded.name}}
                by_requirement == {options.requirements[j] : j \in
                              {j \in DOMAIN options.requirements :
                                 options.requirements[j].name = embedded.name}}
            IN /\ commands[i].name = embedded.name
               /\ IF embedded.specifier # {} THEN commands[i].spec = embedded
                  ELSE IF by_spec # {} THEN commands[i].spec \in by_spec
                  ELSE IF by_requirement # {} THEN commands[i].spec \in by_requirement
                  ELSE commands[i].spec = None

\* a command whose string embeds a spec, with a different --spec and a third,
\* different requirement line for the same name, has been given its spec
C10_Witness ==
    /\ main_pc # "start"
    /\ \E i \in DOMAIN commands :
        \E j \in DOMAIN options.specs :
            \E k \in DOMAIN options.requirements :
                /\ options.commands[i].specifier # {}
                /\ options.specs[j].name = options.commands[i].name
                /\ options.requirements[k].name = options.commands[i].name
                /\ options.specs[j] # options.commands[i]
                /\ options.requirements[k] # options.commands[i]
                /\ options.requirements[k] # options.specs[j]
                /\ commands[i].spec = options.commands[i]

(***************************************************************************)
(* The scripts under tools/ and the session helpers of the noxfiles.       *)
(*                                                                         *)
(* One process runs one of them (prog).  An external command is recorded   *)
(* in trace with the exit code the machine gave it; the exit codes are     *)
(* drawn when the script runs.  status is [pc, raised, code]: where the    *)
(* process stands, the exception that left it (if any), what it returned.  *)
(***************************************************************************)
MaxHooks == 2       \* --format options, and --lint options, on one command line

Started == [pc |-> "start", raised |-> "", code |-> 0]

Returned(code) == [pc |-> "done", raised |-> "", code |-> code]

Raised(e) == [pc |-> "done", raised |-> e, code |-> 1]

\* the first index of codes with a non-zero exit code, or Len(codes) + 1
FirstFailure(codes) ==
    IF \E i \in DOMAIN codes : codes[i] # 0
    THEN CHOOSE i \in DOMAIN codes :
            codes[i] # 0 /\ \A j \in DOMAIN codes : codes[j] # 0 => i <= j
    ELSE Len(codes) + 1

(***************************************************************************)
(* {{cookiecutter.project_name}}/tools/cog_runner.py                       *)
(***************************************************************************)

\* _run_cog: the command, run with check_call
_run_cog(files, extras, use_uvx, constraints, constraints_locked, code) ==
    LET head ==
            IF use_uvx
            THEN <<"uvx", "--from=cogapp">>
                 \o (LET c == IF constraints_locked # "" THEN constraints_locked
                              ELSE constraints
                     IN IF c # "" THEN <<"--constraints=" \o c>> ELSE <<>>)
            ELSE <<"uv", "run">>
        command == head \o extras \o <<"cog", "-rP">> \o files
    IN [trace |-> <<[argv |-> command, check |-> TRUE, code |-> code]>>,
        raised |-> IF code # 0 THEN "CalledProcessError" ELSE ""]

\* a variant of _run_linters that checks every exit code
_run_linters_checking(files, linters, check, constraints, codes) ==
    LET n == IF FirstFailure(codes) <= Len(linters) THEN FirstFailure(codes)
             ELSE Len(linters)
    IN [trace |-> [i \in 1..n |->
                     [argv |-> <<"uvx", "pre-commit", "run", linters[i], "--files">>
                               \o files,
                      check |-> check, code |-> codes[i]]],
        raised |-> IF FirstFailure(codes) <= Len(linters)
                   THEN "CalledProcessError" ELSE ""]

\* _run_linters: run(command, check=check) for each linter in turn; codes[i]
\* is the exit code of the i-th command if it is run
_run_linters(files, linters, check, constraints, codes) ==
    LET command(linter) ==
            <<"uvx">>
            \o (IF constraints # "" THEN <<"--constraints=" \o constraints>> ELSE <<>>)
            \o <<"pre-commit", "run", linter, "--files">> \o files
        stop == check /\ FirstFailure(codes) <= Len(linters)
        n == IF stop THEN FirstFailure(codes) ELSE Len(linters)
    IN [trace |-> [i \in 1..n |->
                     [argv |-> command(linters[i]), check |-> check,
                      code |-> codes[i]]],
        raised |-> IF stop THEN "CalledProcessError" ELSE ""]

\* main of cog_runner.py; the process exits with main's return value, or
\* through the exception that left it
cog_runner ==
    /\ prog = "cog_runner"
    /\ status = Started
    /\ \E cog_code \in {0, 1} :
        \E format_codes \in [1..Len(tool_opts.formatters) -> {0, 1}] :
            \E lint_codes \in [1..Len(tool_opts.linters) -> {0, 1}] :
                LET o == tool_opts
                    missing == \E i \in DOMAIN o.files : o.files[i] \notin world
                    cog == _run_cog(o.files, <<>>, o.use_uvx, o.constraints,
                                    o.constraints_locked, cog_code)
                    formatted == _run_linters(o.files, o.formatters, FALSE,
                                              o.constraints, format_codes)
                    linted == _run_linters(o.files, o.linters, TRUE,
                                           o.constraints, lint_codes)
                IN IF missing
                   THEN trace' = <<>> /\ status' = Raised("ValueError")
                   ELSE IF cog.raised # ""
                   THEN trace' = cog.trace /\ status' = Raised(cog.raised)
                   ELSE IF formatted.raised # ""
                   THEN /\ trace' = cog.trace \o formatted.trace
                        /\ status' = Raised(formatted.raised)
                   ELSE IF linted.raised # ""
                   THEN /\ trace' = cog.trace \o formatted.trace \o linted.trace
                        /\ status' = Raised(linted.raised)
                   ELSE /\ trace' = cog.trace \o formatted.trace \o linted.trace
                        /\ status' = Returned(0)
    /\ UNCHANGED <<prog, tool_opts, world, mem, ctxVars, bakeVars, pipxVars>>

(***************************************************************************)
(* {{cookiecutter.project_name}}/tools/requirements_lock.py                *)
(***************************************************************************)

\* a variant of _maybe_lock_or_sync in which --lock wins over --sync
_maybe_lock_or_sync_lock_first(lock, sync, sync_or_lock, upgrade, venv, code) ==
    IF lock \/ sync \/ sync_or_lock
    THEN [trace |-> <<[argv |-> <<"uv", IF lock \/ (sync_or_lock /\ ~venv)
                                        THEN "lock" ELSE "sync">>,
                       check |-> TRUE, code |-> code]>>,
          raised |-> IF code # 0 THEN "CalledProcessError" ELSE ""]
    ELSE [trace |-> <<>>, raised |-> ""]

\* _maybe_lock_or_sync; venv is Path(".venv").exists()
_maybe_lock_or_sync(lock, sync, sync_or_lock, upgrade, venv, code) ==
    LET sync1 == IF sync_or_lock /\ venv THEN TRUE ELSE sync
        lock1 == IF sync_or_lock /\ ~venv THEN TRUE ELSE lock
        command ==
            <<"uv", IF sync1 THEN "sync" ELSE "lock">>
            \o (IF sync1 THEN <<"--no-active">> ELSE <<>>)
            \o (IF upgrade THEN <<"--upgrade">> ELSE <<>>)
    IN IF lock1 \/ sync1
       THEN [trace |-> <<[argv |-> command, check |-> TRUE, code |-> code]>>,
             raised |-> IF code # 0 THEN "CalledProcessError" ELSE ""]
       ELSE [trace |-> <<>>, raised |-> ""]

\* _lock_files: uv pip compile for each path, with check_call
_lock_files(paths, upgrade, codes) ==
    LET n == IF FirstFailure(codes) <= Len(paths) THEN FirstFailure(codes)
             ELSE Len(paths)
    IN [trace |-> [i \in 1..n |->
                     [argv |-> <<"uv", "pip", "compile", "--universal", "-q">>
                               \o (IF upgrade THEN <<"--upgrade">> ELSE <<>>)
                               \o <<paths[i]>>,
                      check |-> TRUE, code |-> codes[i]]],
        raised |-> IF FirstFailure(codes) <= Len(paths)
                   THEN "CalledProcessError" ELSE ""]

\* main of requirements_lock.py.  The arguments of _lock_files are evaluated
\* after _maybe_lock_or_sync returns: they read pyproject.toml.
requirements_lock ==
    /\ prog = "requirements_lock"
    /\ status = Started
    /\ \E code \in {0, 1} :
        \E codes \in [1..Len(tool_opts.paths) -> {0, 1}] :
            LET o == tool_opts
                first == _maybe_lock_or_sync(o.lock, o.sync, o.sync_or_lock,
                                             o.upgrade, ".venv" \in world, code)
                files == _lock_files(o.paths, o.upgrade, codes)
            IN IF first.raised # ""
               THEN trace' = first.trace /\ status' = Raised(first.raised)
               ELSE IF "pyproject.toml" \notin world
               THEN trace' = first.trace /\ status' = Raised("FileNotFoundError")
               ELSE /\ trace' = first.trace \o files.trace
                    /\ status' = IF files.raised # "" THEN Raised(files.raised)
                                 ELSE Returned(0)
    /\ UNCHANGED <<prog, tool_opts, world, mem, ctxVars, bakeVars, pipxVars>>

(***************************************************************************)
(* tools/typecheck.py                                                      *)
(***************************************************************************)
MaxCheckers == 2    \* -x/--checker options on one command line

\* a variant of _get_python_flags that treats an unknown checker as mypy
_get_python_flags_default_mypy(checker, python_version, python_executable) ==
    IF checker = "pylint" THEN Return(<<>>)
    ELSE IF checker \in {"pyright", "basedpyright"}
    THEN Return(<<"--pythonpath=" \o python_executable,
                  "--pythonversion=" \o python_version>>)
    ELSE Return(<<"--python-executable=" \o python_executable,
                  "--python-version=" \o python_version>>)

\* _get_python_flags (with _is_pyright_like); env_of is
\* str(Path(python_executable).parent.parent) for the one interpreter modelled
_get_python_flags(checker, python_version, python_executable) ==
    LET _is_pyright_like == checker \in {"pyright", "basedpyright"}
        env_of == "/venv"
        python_flag ==
            IF _is_pyright_like THEN "pythonpath"
            ELSE IF checker = "ty" THEN "python"
            ELSE IF checker = "pyrefly" THEN "python-interpreter-path"
            ELSE "python-executable"
        version_flag == IF _is_pyright_like THEN "pythonversion" ELSE "python-version"
        check_subcommand == IF checker \in {"ty", "pyrefly"} THEN <<"check">> ELSE <<>>
    IN IF checker = "pylint" THEN Return(<<>>)
       ELSE IF checker \notin {"pyright", "basedpyright", "ty", "pyrefly", "mypy"}
       THEN Raise("ValueError")
       ELSE Return(check_subcommand
                   \o <<"--" \o python_flag \o "="
                          \o (IF checker = "ty" THEN env_of ELSE python_executable),
                        "--" \o version_flag \o "=" \o python_version>>)

\* _run_checker with _do_run: the command, run with check=False unless
\* dry_run; returns the exit code
_run_checker(checker, python_version, python_executable, dry_run, use_uvx, code) ==
    LET python_flags == _get_python_flags(checker, python_version, python_executable)
        uvx_args ==
            IF use_uvx
            THEN <<"uvx">> \o (IF checker = "mypy" THEN <<"--with", "orjson">> ELSE <<>>)
            ELSE <<>>
    IN IF python_flags.raised # ""
       THEN [trace |-> <<>>, raised |-> python_flags.raised, code |-> 0]
       ELSE IF dry_run
       THEN [trace |-> <<>>, raised |-> "", code |-> 0]
       ELSE [trace |-> <<[argv |-> uvx_args \o <<checker>> \o python_flags.val,
                          check |-> FALSE, code |-> code]>>,
             raised |-> "", code |-> code]

\* main of typecheck.py: the checkers in turn, their exit codes summed; an
\* exception leaves the loop
typecheck ==
    /\ prog = "typecheck"
    /\ status = Started
    /\ \E codes \in [1..Len(tool_opts.checkers) -> {0, 1}] :
        LET o == tool_opts
            python_version == "3.13"
            python_executable == "/venv/bin/python"
            ran_(i) == _run_checker(o.checkers[i], python_version,
                                    python_executable, o.dry_run, ~o.no_uv, codes[i])
            bad == {i \in DOMAIN o.checkers : ran_(i).raised # ""}
            stop == IF bad = {} THEN Len(o.checkers) + 1
                    ELSE CHOOSE i \in bad : \A j \in bad : i <= j
            RECURSIVE upto(_)
            upto(i) == IF i = 0 THEN [trace |-> <<>>, code |-> 0]
                       ELSE [trace |-> upto(i - 1).trace \o ran_(i).trace,
                             code |-> upto(i - 1).code + ran_(i).code]
            before == upto(stop - 1)
        IN /\ trace' = before.trace
           /\ status' = IF bad # {} THEN Raised(ran_(stop).raised)
                        ELSE Returned(IF o.allow_errors THEN 0 ELSE before.code)
    /\ UNCHANGED <<prog, tool_opts, world, mem, ctxVars, bakeVars, pipxVars>>

(***************************************************************************)
(* {{cookiecutter.project_name}}/tools/execute_notebook.py                 *)
(*                                                                         *)
(* A notebook path is [dir, stem].  An --output value is [given, dir,      *)
(* name]: whether the option was passed, the directory part of the string  *)
(* and the parts of its last component, "{notebook_name}" being the        *)
(* replacement field.  world is the set of directories that exist besides  *)
(* the current one.                                                        *)
(***************************************************************************)
MaxNotebooks == 2   \* notebooks on one command line

\* a variant of run_notebook that does not look at the output directory before
\* it executes the notebook
run_notebook_unchecked(notebook_path, allow_errors, inplace, output_base, dirs, code) ==
    IF notebook_path.dir \notin dirs
    THEN [trace |-> <<>>, raised |-> "FileNotFoundError"]
    ELSE [trace |-> <<[argv |-> <<"execute", notebook_path.dir, notebook_path.stem>>,
                       check |-> ~allow_errors, code |-> code]>>,
          raised |-> IF code # 0 /\ ~allow_errors THEN "CellExecutionError" ELSE ""]

\* run_notebook; dirs are the directories that exist, code says whether a
\* cell of the notebook fails
run_notebook(notebook_path, allow_errors, inplace, output_base, dirs, code) ==
    LET join(d, sub) == IF sub = "" THEN d ELSE IF d = "." THEN sub
                        ELSE d \o "/" \o sub
        format(parts) ==
            [i \in DOMAIN parts |->
                IF parts[i] = "{notebook_name}" THEN notebook_path.stem ELSE parts[i]]
        has_output == inplace \/ (output_base.given /\ output_base # [given |-> TRUE, dir |-> "", name |-> <<>>])
        output_parent == IF inplace THEN notebook_path.dir
                         ELSE join(notebook_path.dir, output_base.dir)
        output_name == IF inplace THEN <<notebook_path.stem>>
                       ELSE format(output_base.name)
        executed == [argv |-> <<"execute", notebook_path.dir, notebook_path.stem>>,
                     check |-> ~allow_errors, code |-> code]
        written == [argv |-> <<"write", output_parent>> \o output_name,
                    check |-> TRUE, code |-> 0]
    IN IF has_output /\ output_parent \notin dirs
       THEN [trace |-> <<>>, raised |-> "ValueError"]
       ELSE IF notebook_path.dir \notin dirs
       THEN [trace |-> <<>>, raised |-> "FileNotFoundError"]
       ELSE IF code # 0 /\ ~allow_errors
       THEN [trace |-> <<executed>>, raised |-> "CellExecutionError"]
       ELSE [trace |-> <<executed>> \o (IF has_output THEN <<written>> ELSE <<>>),
             raised |-> ""]

\* verify_notebooks
verify_notebooks(notebooks, output_base) ==
    IF /\ Len(notebooks) > 1
       /\ output_base.given
       /\ ~\E k \in DOMAIN output_base.name : output_base.name[k] = "{notebook_name}"
    THEN Raise("ValueError")
    ELSE Return(NoValue)

\* the __main__ block of execute_notebook.py
execute_notebook ==
    /\ prog = "execute_notebook"
    /\ status = Started
    /\ \E codes \in [1..Len(tool_opts.notebooks) -> {0, 1}] :
        LET o == tool_opts
            dirs == world \cup {"."}
            ran_(i) == run_notebook(o.notebooks[i], o.allow_errors, o.inplace,
                                    o.output, dirs, codes[i])
            bad == {i \in DOMAIN o.notebooks : ran_(i).raised # ""}
            stop == IF bad = {} THEN Len(o.notebooks)
                    ELSE CHOOSE i \in bad : \A j \in bad : i <= j
            RECURSIVE upto(_)
            upto(i) == IF i = 0 THEN <<>> ELSE upto(i - 1) \o ran_(i).trace
        IN IF verify_notebooks(o.notebooks, o.output).raised # ""
           THEN /\ trace' = <<>>
                /\ status' = Raised(verify_notebooks(o.notebooks, o.output).raised)
           ELSE /\ trace' = upto(stop)
                /\ status' = IF bad # {} THEN Raised(ran_(stop).raised)
                             ELSE Returned(0)
    /\ UNCHANGED <<prog, tool_opts, world, mem, ctxVars, bakeVars, pipxVars>>

(***************************************************************************)
(* hooks/pre_gen_project.py                                                *)
(*                                                                         *)
(* Names are sequences of characters.  A regular expression ^c1c2...$ is   *)
(* the sequence of its items, each a character class with or without +.    *)
(* "a" stands for the letters a-zA-Z, "9" for the digits and "." for every *)
(* character that neither expression allows.                               *)
(***************************************************************************)
MaxNameLen == 3   \* characters in a project name or slug

\* re.match for an anchored sequence of character classes (greedy + with
\* backtracking accepts exactly the strings this accepts)
RECURSIVE re_match(_, _)
re_match(regex, string) ==
    IF regex = <<>> THEN string = <<>>
    ELSE IF string = <<>> THEN FALSE
    ELSE IF Head(string) \notin Head(regex).chars THEN FALSE
    ELSE \/ re_match(Tail(regex), Tail(string))
         \/ Head(regex).plus /\ re_match(regex, Tail(string))

\* ^[_a-zA-Z][_a-zA-Z0-9]+$, which is not the expression for package names
PACKAGE_REGEX_no_hyphen ==
    <<[chars |-> {"_", "a"}, plus |-> FALSE],
      [chars |-> {"_", "a", "9"}, plus |-> TRUE]>>

\* ^[_a-zA-Z][_a-zA-Z0-9-]+$
PACKAGE_REGEX ==
    <<[chars |-> {"_", "a"}, plus |-> FALSE],
      [chars |-> {"_", "a", "9", "-"}, plus |-> TRUE]>>

\* ^[_a-zA-Z][_a-zA-Z0-9]+$
MODULE_REGEX ==
    <<[chars |-> {"_", "a"}, plus |-> FALSE],
      [chars |-> {"_", "a", "9"}, plus |-> TRUE]>>

\* the rendered hook script, run from top to bottom
pre_gen_project ==
    /\ prog = "pre_gen_project"
    /\ status = Started
    /\ LET package_name == tool_opts.project_name
           module_name == tool_opts.project_slug
           printed(what) == [argv |-> <<"print", what>>, check |-> FALSE, code |-> 0]
       IN IF ~re_match(PACKAGE_REGEX, package_name)
          THEN /\ trace' = <<printed("project name")>>
               /\ status' = [pc |-> "done", raised |-> "SystemExit", code |-> 1]
          ELSE IF ~re_match(MODULE_REGEX, module_name)
          THEN /\ trace' = <<printed("project slug")>>
               /\ status' = [pc |-> "done", raised |-> "SystemExit", code |-> 1]
          ELSE /\ trace' = <<>>
               /\ status' = Returned(0)
    /\ UNCHANGED <<prog, tool_opts, world, mem, ctxVars, bakeVars, pipxVars>>

(***************************************************************************)
(* noxfile.py and {{cookiecutter.project_name}}/noxfile.py:                *)
(* get_package_wheel                                                       *)
(*                                                                         *)
(* mem is the nox process: the attribute get_package_wheel._called and the *)
(* calls made so far.  A call that raises ends its session, not the        *)
(* process, so later sessions call the function again.                     *)
(***************************************************************************)
MaxCalls == 3   \* calls of get_package_wheel in one process

\* a variant of get_package_wheel that records the build before it has run
get_package_wheel_marking_first(reuse, _called, runner, code, wheels) ==
    LET build == ~(reuse /\ _called)
        failed == build /\ code # 0
    IN [built |-> build,
        trace |-> IF build
                  THEN <<[argv |-> <<runner, "nox", "-s", "build">>,
                          check |-> TRUE, code |-> code]>>
                  ELSE <<>>,
        _called |-> _called \/ (build /\ reuse),
        raised |-> IF failed THEN "CommandFailed"
                   ELSE IF wheels # 1 THEN "ValueError" ELSE ""]

\* get_package_wheel(session, reuse=reuse): _called is the function attribute
\* on entry, runner the session method that runs the build, code the exit
\* status of the build command if it runs, wheels the number of *.whl files
\* found afterwards
get_package_wheel(reuse, _called, runner, code, wheels) ==
    LET build == ~(reuse /\ _called)
        failed == build /\ code # 0
    IN [built |-> build,
        trace |-> IF build
                  THEN <<[argv |-> <<runner, "nox", "-s", "build">>,
                          check |-> TRUE, code |-> code]>>
                  ELSE <<>>,
        _called |-> _called \/ (build /\ ~failed /\ reuse),
        raised |-> IF failed THEN "CommandFailed"
                   ELSE IF wheels # 1 THEN "ValueError" ELSE ""]

\* one session of the nox process calls get_package_wheel
get_package_wheel_call ==
    /\ prog = "noxfile"
    /\ status = Started
    /\ Len(mem.calls) < MaxCalls
    /\ \E reuse \in BOOLEAN, code \in {0, 1}, wheels \in 0..2 :
        LET r == get_package_wheel(reuse, mem._called, tool_opts.runner, code, wheels)
        IN /\ mem' = [_called |-> r._called,
                      calls |-> Append(mem.calls,
                                       [reuse |-> reuse, built |-> r.built,
                                        raised |-> r.raised,
                                        marked |-> r._called])]
           /\ trace' = trace \o r.trace
    /\ UNCHANGED <<prog, tool_opts, world, status, ctxVars, bakeVars, pipxVars>>

(***************************************************************************)
(* {{cookiecutter.project_name}}/noxfile.py: parse_posargs and the typing  *)
(* session                                                                 *)
(*                                                                         *)
(* tool_opts.typing is the list given with +m on the command line (<<>>    *)
(* when the option is absent).  mem.cache is the lru_cache of              *)
(* parse_posargs: empty, or the one SessionParams object made for the      *)
(* posargs of this invocation; the sessions hold references to this        *)
(* object, so a change of its list is a change of mem.cache.  mem.seen     *)
(* lists, per session run, opts.typing as the session received it.         *)
(***************************************************************************)
MaxTyping == 2     \* values of +m
MaxSessions == 2   \* typing-<python> sessions run by one invocation

\* parse_posargs(*session.posargs) under @lru_cache: the cached object if
\* there is one, a newly parsed one otherwise
parse_posargs(posargs, cache) ==
    IF cache # <<>> THEN cache[1] ELSE [typing |-> posargs.typing]

\* list.remove(x): the list without the first x
list_remove(list, x) ==
    LET at == CHOOSE i \in DOMAIN list :
                    list[i] = x /\ \A j \in 1..(i - 1) : list[j] # x
    IN [i \in 1..(Len(list) - 1) |-> IF i < at THEN list[i] ELSE list[i + 1]]

\* the typing session, wrapped by add_opts; code is the exit status of the
\* type checkers it runs
typing ==
    /\ prog = "nox"
    /\ status = Started
    /\ Len(mem.seen) < MaxSessions
    /\ \E code \in {0, 1} :
        LET opts == parse_posargs(tool_opts, mem.cache)
            aliased == opts.typing # <<>> /\ \A i \in DOMAIN opts.typing : opts.typing[i] # "all"
            cmd0 == IF opts.typing = <<>> THEN <<"mypy", "pyright">>
                    ELSE IF ~aliased THEN <<"mypy", "pyright", "pytype">>
                    ELSE opts.typing
            clean == \E i \in DOMAIN cmd0 : cmd0[i] = "clean"
            cmd == IF clean THEN list_remove(cmd0, "clean") ELSE cmd0
            runs == [i \in DOMAIN cmd |->
                        [argv |-> <<cmd[i]>>, check |-> TRUE, code |-> code]]
        IN /\ mem' = [cache |-> <<[typing |-> IF aliased THEN cmd ELSE opts.typing]>>,
                      seen |-> Append(mem.seen, opts.typing)]
           /\ trace' = trace \o (IF code # 0 /\ cmd # <<>> THEN <<runs[1]>> ELSE runs)
    /\ UNCHANGED <<prog, tool_opts, world, status, ctxVars, bakeVars, pipxVars>>

(***************************************************************************)
(* tools/noxtools.py: Installer                                            *)
(*                                                                         *)
(* tool_opts is what the session passes to Installer and install_all.      *)
(* world is the content of the session's env.json, "" when the file does   *)
(* not exist.  mem lists the runs of the session so far; each run makes a  *)
(* new Installer, so the cached properties are computed once per run.      *)
(* display_name is left at None, update_package at False.                  *)
(***************************************************************************)
MaxRuns == 2   \* runs of one session, one after the other

\* Installer.changed, from Installer.config and Installer.previous_config
changed(config, env_json) ==
    LET previous_config == IF env_json = "" THEN "{}" ELSE env_json
    IN config # previous_config

\* a variant of install_all that saves the configuration before it installs
install_all_saving_first(self, log_session, save_config, env_json, fail) ==
    LET installs == ~self.skip_install /\ (changed(self.config, env_json) \/ self.update)
        steps == (IF self.is_conda_session /\ installs THEN <<"conda_install_deps">> ELSE <<>>)
                 \o (IF self.pip_deps /\ installs THEN <<"pip_install_deps">> ELSE <<>>)
                 \o (IF self.package /\ installs THEN <<"pip_install_package">> ELSE <<>>)
                 \o (IF log_session THEN <<"log_session">> ELSE <<>>)
        failing == {i \in DOMAIN steps : steps[i] = fail}
        last_ == IF failing = {} THEN Len(steps) ELSE CHOOSE i \in failing : TRUE
    IN [trace |-> [i \in 1..last_ |->
                      [argv |-> <<steps[i]>>, check |-> TRUE,
                       code |-> IF i \in failing THEN 1 ELSE 0]],
        raised |-> IF failing # {} THEN "CommandFailed" ELSE "",
        env_json |-> IF save_config THEN self.config ELSE env_json]

\* Installer.install_all with the methods it chains; env_json is the stored
\* configuration on entry, fail the step whose command fails ("" for none)
install_all(self, log_session, save_config, env_json, fail) ==
    LET installs == ~self.skip_install /\ (changed(self.config, env_json) \/ self.update)
        steps == (IF self.is_conda_session /\ installs THEN <<"conda_install_deps">> ELSE <<>>)
                 \o (IF self.pip_deps /\ installs THEN <<"pip_install_deps">> ELSE <<>>)
                 \o (IF self.package /\ installs THEN <<"pip_install_package">> ELSE <<>>)
                 \o (IF log_session THEN <<"log_session">> ELSE <<>>)
        failing == {i \in DOMAIN steps : steps[i] = fail}
        last_ == IF failing = {} THEN Len(steps) ELSE CHOOSE i \in failing : TRUE
    IN [trace |-> [i \in 1..last_ |->
                      [argv |-> <<steps[i]>>, check |-> TRUE,
                       code |-> IF i \in failing THEN 1 ELSE 0]],
        raised |-> IF failing # {} THEN "CommandFailed" ELSE "",
        env_json |-> IF save_config /\ failing = {} THEN self.config ELSE env_json]

\* one run of a session that builds an Installer and calls install_all; the
\* files the configuration is computed from may have changed since the last
\* run
Installer ==
    /\ prog = "Installer"
    /\ status = Started
    /\ Len(mem) < MaxRuns
    /\ \E config \in {"A", "B"},
          fail \in {"", "conda_install_deps", "pip_install_deps",
                    "pip_install_package", "log_session"} :
        LET self == [config |-> config,
                     is_conda_session |-> tool_opts.is_conda_session,
                     pip_deps |-> tool_opts.pip_deps,
                     package |-> tool_opts.package,
                     update |-> tool_opts.update,
                     skip_install |-> tool_opts.skip_install]
            r == install_all(self, tool_opts.log_session, tool_opts.save_config,
                             world, fail)
        IN /\ world' = r.env_json
           /\ mem' = Append(mem, [config |-> config,
                                  changed |-> changed(config, world),
                                  before |-> world,
                                  after |-> r.env_json,
                                  steps |-> Len(r.trace),
                                  raised |-> r.raised])
           /\ trace' = r.trace
    /\ UNCHANGED <<prog, tool_opts, status, ctxVars, bakeVars, pipxVars>>

(***************************************************************************)
(* {{cookiecutter.project_slug}}/tools/noxtools.py: session_install_pip    *)
(*                                                                         *)
(* world is the content of the session's pip.json, "" when the file does   *)
(* not exist; mem lists the runs as for Installer.  display_name is None.  *)
(***************************************************************************)

\* one run of a session that calls session_install_pip; hashes are the
\* hashes of the requirement files and options at this run, fail the install
\* command that fails ("" for none)
session_install_pip ==
    /\ prog = "session_install_pip"
    /\ status = Started
    /\ Len(mem) < MaxRuns
    /\ \E hashes \in {"A", "B"}, fail \in {"", "install_args", "install_package"} :
        LET unchanged == world # "" /\ hashes = world
            returns_early == tool_opts.skip_install
                             \/ (unchanged /\ ~tool_opts.force_reinstall)
            steps == IF returns_early THEN <<>>
                     ELSE (IF tool_opts.reqs THEN <<"install_args">> ELSE <<>>)
                          \o (IF tool_opts.install_package
                              THEN <<"install_package">> ELSE <<>>)
            failing == {i \in DOMAIN steps : steps[i] = fail}
            last_ == IF failing = {} THEN Len(steps) ELSE CHOOSE i \in failing : TRUE
            written == IF returns_early \/ failing # {} THEN world ELSE hashes
        IN /\ world' = written
           /\ mem' = Append(mem, [config |-> hashes,
                                  changed |-> ~unchanged,
                                  before |-> world,
                                  after |-> written,
                                  steps |-> last_,
                                  raised |-> IF failing # {} THEN "CommandFailed"
                                             ELSE ""])
           /\ trace' = [i \in 1..last_ |->
                          [argv |-> <<"session.install", steps[i]>>, check |-> TRUE,
                           code |-> IF i \in failing THEN 1 ELSE 0]]
    /\ UNCHANGED <<prog, tool_opts, status, ctxVars, bakeVars, pipxVars>>

(***************************************************************************)
(* tests/utils.py and scripts/create_examples.py: inside_dir and           *)
(* run_inside_dir                                                          *)
(*                                                                         *)
(* world is the working directory of the process, tool_opts.dirs the       *)
(* directories that exist; mem lists the calls of run_inside_dir so far.   *)
(* A call that raises is caught by its caller (pytest), and the process    *)
(* goes on to the next call.                                               *)
(***************************************************************************)

\* a variant of inside_dir with no finally clause: the directory is changed
\* back only when the block returns
inside_dir_no_finally(dirpath, cwd, dirs, block_raised) ==
    LET old_path == cwd
        chdir_raised == IF dirpath \in dirs THEN "" ELSE "FileNotFoundError"
        cwd_in_block == IF chdir_raised = "" THEN dirpath ELSE cwd
        raised == IF chdir_raised # "" THEN chdir_raised ELSE block_raised
    IN [entered |-> chdir_raised = "",
        cwd_in_block |-> cwd_in_block,
        raised |-> raised,
        cwd |-> IF raised = "" THEN old_path ELSE cwd_in_block]

\* with inside_dir(dirpath): <block>, started in directory cwd; block_raised
\* is the exception the block raises ("" when it returns)
inside_dir(dirpath, cwd, dirs, block_raised) ==
    LET old_path == cwd
        chdir_raised == IF dirpath \in dirs THEN "" ELSE "FileNotFoundError"
        cwd_in_block == IF chdir_raised = "" THEN dirpath ELSE cwd
        raised == IF chdir_raised # "" THEN chdir_raised ELSE block_raised
    IN [entered |-> chdir_raised = "",
        cwd_in_block |-> cwd_in_block,
        raised |-> raised,
        cwd |-> old_path]

\* run_inside_dir(command, dirpath); code is the exit status of the command
run_inside_dir ==
    /\ prog = "run_inside_dir"
    /\ status = Started
    /\ Len(mem) < MaxCalls
    /\ \E dirpath \in {"/repo", "/tmp/example", "/tmp/missing"}, code \in {0, 1} :
        LET r == inside_dir(dirpath, world, tool_opts.dirs,
                            IF code # 0 THEN "CalledProcessError" ELSE "")
        IN /\ world' = r.cwd
           /\ mem' = Append(mem, [dirpath |-> dirpath, before |-> world,
                                  ran_in |-> r.cwd_in_block,
                                  raised |-> r.raised, after |-> r.cwd])
           /\ trace' = trace \o (IF r.entered
                                 THEN <<[argv |-> <<"command", r.cwd_in_block>>,
                                         check |-> TRUE, code |-> code]>>
                                 ELSE <<>>)
    /\ UNCHANGED <<prog, tool_opts, status, ctxVars, bakeVars, pipxVars>>

\* The process starts with its command line parsed and the machine in some
\* state.  cog_runner: the command lines, over the files that exist.
InitTools ==
    /\ \/ /\ prog = "cog_runner"
          /\ tool_opts \in
                [use_uvx : BOOLEAN,
                 linters : SeqsUpTo({"ruff", "markdownlint"}, MaxHooks),
                 formatters : SeqsUpTo({"ruff-format", "markdownlint"}, MaxHooks),
                 constraints : {"requirements/uvx-tools.txt"},
                 constraints_locked : {"requirements/lock/uvx-tools.txt", ""},
                 files : {<<"README.md">>}]
          /\ world \in {{}, {"README.md"}}
          /\ mem = <<>>
       \/ /\ prog = "requirements_lock"
          /\ tool_opts \in
                [lock : BOOLEAN, sync : BOOLEAN, sync_or_lock : BOOLEAN,
                 upgrade : BOOLEAN,
                 paths : {<<>>, <<"requirements/test.txt">>}]
          /\ world \in SUBSET {".venv", "pyproject.toml"}
          /\ mem = <<>>
       \/ /\ prog = "typecheck"
          /\ tool_opts \in
                [checkers : SeqsUpTo({"mypy", "pyright", "basedpyright", "ty",
                                      "pyrefly", "pylint", "flake8"}, MaxCheckers),
                 dry_run : BOOLEAN, no_uv : BOOLEAN, allow_errors : BOOLEAN]
          /\ world = {}
          /\ mem = <<>>
       \/ /\ prog = "execute_notebook"
          /\ tool_opts \in
                [notebooks : SeqsUpTo([dir : {".", "nb"}, stem : {"a", "b"}],
                                      MaxNotebooks) \ {<<>>},
                 output : {[given |-> FALSE, dir |-> "", name |-> <<>>],
                           [given |-> TRUE, dir |-> "", name |-> <<>>],
                           [given |-> TRUE, dir |-> "", name |-> <<"out">>],
                           [given |-> TRUE, dir |-> "", name |-> <<"{notebook_name}", "-out">>],
                           [given |-> TRUE, dir |-> "results", name |-> <<"out">>],
                           [given |-> TRUE, dir |-> "results", name |-> <<"{notebook_name}">>]},
                 inplace : BOOLEAN, allow_errors : BOOLEAN]
          /\ world \in SUBSET {"nb", "results", "nb/results"}
          /\ mem = <<>>
       \/ /\ prog = "pre_gen_project"
          /\ tool_opts \in
                [project_name : SeqsUpTo({"a", "_", "-", "9", "."}, MaxNameLen),
                 project_slug : SeqsUpTo({"a", "_", "-", "9", "."}, MaxNameLen)]
          /\ world = <<>>
          /\ mem = <<>>
       \/ /\ prog = "noxfile"
          /\ tool_opts \in [runner : {"run_always", "run"}]
          /\ world = <<>>
          /\ mem = [_called |-> FALSE, calls |-> <<>>]
       \/ /\ prog = "nox"
          /\ tool_opts \in [typing : SeqsUpTo({"clean", "mypy", "all"}, MaxTyping)]
          /\ world = <<>>
          /\ mem = [cache |-> <<>>, seen |-> <<>>]
       \/ /\ prog = "Installer"
          /\ tool_opts \in [is_conda_session : BOOLEAN, pip_deps : BOOLEAN,
                            package : BOOLEAN, update : BOOLEAN,
                            skip_install : BOOLEAN, log_session : BOOLEAN,
                            save_config : BOOLEAN]
          /\ world \in {"", "A", "B"}
          /\ mem = <<>>
       \/ /\ prog = "session_install_pip"
          /\ tool_opts \in [reqs : BOOLEAN, install_package : BOOLEAN,
                            force_reinstall : BOOLEAN, skip_install : BOOLEAN]
          /\ world \in {"", "A", "B"}
          /\ mem = <<>>
       \/ /\ prog = "run_inside_dir"
          /\ tool_opts \in [dirs : {{"/repo", "/tmp/example"}, {"/repo"}}]
          /\ world = "/repo"
          /\ mem = <<>>
    /\ trace = <<>>
    /\ status = Started
    /\ ContextIdle
    /\ BakeIdle
    /\ PipxIdle

NextTools ==
    \/ cog_runner
    \/ requirements_lock
    \/ typecheck
    \/ execute_notebook
    \/ pre_gen_project
    \/ get_package_wheel_call
    \/ typing
    \/ Installer
    \/ session_install_pip
    \/ run_inside_dir

SpecTools == InitTools /\ [][NextTools]_vars

(***************************************************************************)
(* Claims about the tools (checked under SpecTools)                        *)
(***************************************************************************)

\* C11: when cog_runner has ended, cog was the first command run; every
\* formatter command precedes every linter command; if cog succeeded every
\* formatter was run, whatever the formatters' exit codes, and then the first
\* linter (if any); the command failed if a linter failed; and it failed only
\* if a file was missing, cog failed or a linter failed - never for a formatter.
C11_FormattersNeverFail ==
    (prog = "cog_runner" /\ status.pc = "done") =>
        LET isCog(e) == \E k \in DOMAIN e.argv : e.argv[k] = "cog"
            formats == {i \in DOMAIN trace : ~isCog(trace[i]) /\ ~trace[i].check}
            lints == {i \in DOMAIN trace : ~isCog(trace[i]) /\ trace[i].check}
            cogOk == trace # <<>> /\ isCog(trace[1]) /\ trace[1].code = 0
        IN /\ trace # <<>> => isCog(trace[1])
           /\ \A i \in DOMAIN trace : i > 1 => ~isCog(trace[i])
           /\ \A i \in formats : \A j \in lints : i < j
           /\ cogOk =>
                /\ Cardinality(formats) = Len(tool_opts.formatters)
                /\ \A i \in formats :
                     trace[i].argv[Len(trace[i].argv) - 2] = tool_opts.formatters[i - 1]
                /\ tool_opts.linters # <<>> => lints # {}
           /\ (\E j \in lints : trace[j].code # 0) => status.raised # ""
           /\ status.raised # "" =>
                \/ trace = <<>>
                \/ ~cogOk
                \/ \E j \in lints : trace[j].code # 0

\* cog_runner ended with exit status 0 although a formatter failed, and a
\* formatter and a linter were run after the failing formatter
C11_Witness ==
    /\ prog = "cog_runner"
    /\ status = Returned(0)
    /\ Len(tool_opts.formatters) >= 2
    /\ Len(tool_opts.linters) >= 1
    /\ Len(trace) = 1 + Len(tool_opts.formatters) + Len(tool_opts.linters)
    /\ trace[2].code # 0
    /\ ~trace[2].check
    /\ trace[Len(trace)].check

C13_FlagsAndRejection ==
    (prog = "typecheck" /\ status.pc = "done") =>
        LET has(i, flag) == \E k \in DOMAIN trace[i].argv : trace[i].argv[k] = flag
            checker(i) == CHOOSE c \in {"mypy", "pyright", "basedpyright", "ty",
                                        "pyrefly", "pylint", "flake8"} : has(i, c)
            exe == "=/venv/bin/python"
            ver == "=3.13"
        IN /\ \A i \in DOMAIN trace :
                /\ checker(i) = "mypy" => has(i, "--python-executable" \o exe)
                /\ checker(i) \in {"pyright", "basedpyright"} =>
                     has(i, "--pythonpath" \o exe) /\ has(i, "--pythonversion" \o ver)
                /\ checker(i) \in {"mypy", "ty", "pyrefly"} =>
                     has(i, "--python-version" \o ver)
                /\ checker(i) = "pylint" =>
                     trace[i].argv \in {<<"pylint">>, <<"uvx", "pylint">>}
           /\ status.raised = "ValueError" => trace = <<>>

\* C13, amended: the flags as above; typecheck ends with ValueError exactly
\* when an unsupported checker is listed, and then the commands run are those
\* of the checkers listed before the first unsupported one: no command is run
\* for the unsupported checker or for any checker after it.
C13_FlagsAndLateRejection ==
    (prog = "typecheck" /\ status.pc = "done") =>
        LET has(i, flag) == \E k \in DOMAIN trace[i].argv : trace[i].argv[k] = flag
            o == tool_opts
            exe == "=/venv/bin/python"
            ver == "=3.13"
            unsupported == {i \in DOMAIN o.checkers : o.checkers[i] = "flake8"}
        IN /\ \A i \in DOMAIN trace :
                LET c == o.checkers[i]
                IN /\ has(i, c)
                   /\ c # "flake8"
                   /\ c = "mypy" => has(i, "--python-executable" \o exe)
                   /\ c \in {"pyright", "basedpyright"} =>
                        has(i, "--pythonpath" \o exe) /\ has(i, "--pythonversion" \o ver)
                   /\ c \in {"mypy", "ty", "pyrefly"} =>
                        has(i, "--python-version" \o ver)
                   /\ c = "pylint" =>
                        trace[i].argv \in {<<"pylint">>, <<"uvx", "pylint">>}
           /\ (status.raised = "ValueError") <=> (unsupported # {})
           /\ unsupported # {} =>
                \A i \in unsupported : Len(trace) < i
           /\ (unsupported = {} /\ ~o.dry_run) => Len(trace) = Len(o.checkers)
           /\ (unsupported # {} /\ ~o.dry_run) =>
                \E i \in unsupported : Len(trace) = i - 1

\* typecheck ran mypy and then rejected an unsupported checker
C13_Witness ==
    /\ prog = "typecheck"
    /\ status.raised = "ValueError"
    /\ Len(trace) = 1
    /\ tool_opts.checkers[1] = "mypy"
    /\ tool_opts.checkers[2] = "flake8"

\* C14: when execute_notebook has ended: if more than one notebook was given
\* with an --output value that holds no {notebook_name}, it ended with
\* ValueError and no notebook was executed; no notebook whose output directory
\* does not exist was ever executed; and if the output directory of the first
\* notebook does not exist (and the invocation is not rejected), it ended with
\* ValueError before anything was executed.
C14_RejectedBeforeExecution ==
    (prog = "execute_notebook" /\ status.pc = "done") =>
        LET o == tool_opts
            out == o.output
            placeholder == \E k \in DOMAIN out.name : out.name[k] = "{notebook_name}"
            rejected == Len(o.notebooks) > 1 /\ out.given /\ ~placeholder
            writes == o.inplace \/ (out.given /\ (out.dir # "" \/ out.name # <<>>))
            outdir(nb) == IF o.inplace \/ out.dir = "" THEN nb.dir
                          ELSE IF nb.dir = "." THEN out.dir
                          ELSE nb.dir \o "/" \o out.dir
            exists(d) == d = "." \/ d \in world
            executed == {<<trace[i].argv[2], trace[i].argv[3]>> :
                            i \in {j \in DOMAIN trace : trace[j].argv[1] = "execute"}}
        IN /\ rejected => status.raised = "ValueError" /\ trace = <<>>
           /\ \A i \in DOMAIN o.notebooks :
                (writes /\ ~exists(outdir(o.notebooks[i]))) =>
                    <<o.notebooks[i].dir, o.notebooks[i].stem>> \notin executed
           /\ (~rejected /\ writes /\ ~exists(outdir(o.notebooks[1]))) =>
                status.raised = "ValueError" /\ trace = <<>>

\* execute_notebook executed and saved a first notebook, then raised
\* ValueError for a second one whose output directory does not exist
C14_Witness ==
    /\ prog = "execute_notebook"
    /\ status.raised = "ValueError"
    /\ Len(trace) = 2
    /\ trace[1].argv[1] = "execute"
    /\ trace[2].argv[1] = "write"
    /\ Len(tool_opts.notebooks) = 2

\* C15: when the pre-generation hook has ended, it has exited with status 1
\* exactly if the project name or the project slug is not a letter or underscore
\* followed by one or more allowed characters (letters, digits, underscore,
\* and for the name also '-'); otherwise it completed without exiting; a slug
\* that holds '-' is rejected; and a bad project name is reported whatever the
\* slug is, the slug only when the name is good.
C15_ExitIffInvalid ==
    (prog = "pre_gen_project" /\ status.pc = "done") =>
        LET name == tool_opts.project_name
            slug == tool_opts.project_slug
            first == {"_", "a"}
            word == {"_", "a", "9"}
            good(s, more) == /\ Len(s) >= 2
                             /\ s[1] \in first
                             /\ \A i \in 2..Len(s) : s[i] \in more
            exited == status.raised = "SystemExit" /\ status.code = 1
        IN /\ exited <=> (~good(name, word \cup {"-"}) \/ ~good(slug, word))
           /\ ~exited => status = Returned(0) /\ trace = <<>>
           /\ (\E i \in DOMAIN slug : slug[i] = "-") => exited
           /\ ~good(name, word \cup {"-"}) => trace[1].argv[2] = "project name"
           /\ (exited /\ good(name, word \cup {"-"})) => trace[1].argv[2] = "project slug"

\* the hook accepted a project name with '-' and cancelled generation because
\* of a slug with '-'
C15_Witness ==
    /\ prog = "pre_gen_project"
    /\ status.raised = "SystemExit"
    /\ tool_opts.project_name = <<"a", "-">>
    /\ tool_opts.project_slug = <<"a", "-">>
    /\ trace[1].argv[2] = "project slug"

\* C16: in the calls of get_package_wheel made so far in one process: a call
\* with reuse=True ran the build command exactly if no earlier reuse=True
\* call had run a build that returned; a call with reuse=False ran the build,
\* and the build stayed as marked as it was before that call; and after a
\* call whose build command raised the mark is as it was before, so a next
\* call with no completed reuse=True build before it builds again.
C16_BuildOncePerProcess ==
    prog = "noxfile" =>
        LET calls == mem.calls
            completed(j) == /\ calls[j].reuse
                            /\ calls[j].built
                            /\ calls[j].raised # "CommandFailed"
            before(i) == IF i = 1 THEN FALSE ELSE calls[i - 1].marked
        IN \A i \in DOMAIN calls :
            /\ calls[i].reuse =>
                (calls[i].built <=> ~\E j \in 1..(i - 1) : completed(j))
            /\ ~calls[i].reuse =>
                calls[i].built /\ calls[i].marked = before(i)
            /\ calls[i].raised = "CommandFailed" => calls[i].marked = before(i)
            /\ Len(trace) = Cardinality({j \in DOMAIN calls : calls[j].built})

\* a reuse=True call whose build raised, then a reuse=True call that built
\* again and returned, then a reuse=True call that reused the build
C16_Witness ==
    /\ prog = "noxfile"
    /\ Len(mem.calls) = 3
    /\ mem.calls[1].reuse /\ mem.calls[1].raised = "CommandFailed"
    /\ mem.calls[2].reuse /\ mem.calls[2].built /\ mem.calls[2].raised = ""
    /\ mem.calls[3].reuse /\ ~mem.calls[3].built

\* C17: every typing session run so far in one nox invocation received, as
\* opts.typing, the list parsed from the command line.
C17_SessionsSeeParsedOptions ==
    prog = "nox" =>
        \A i \in DOMAIN mem.seen : mem.seen[i] = tool_opts.typing

\* C18: in every run so far of a session's Installer.install_all, or of
\* session_install_pip: if an install step raised, the stored record
\* (env.json, pip.json) is as it was before the run; if the record was
\* written, no step raised and it holds the run's configuration; and after a
\* run that found the session changed and raised, a next run with the same
\* configuration finds it changed again.
C18_RecordAfterInstalls ==
    prog \in {"Installer", "session_install_pip"} =>
        \A i \in DOMAIN mem :
            /\ mem[i].raised # "" => mem[i].after = mem[i].before
            /\ mem[i].after # mem[i].before =>
                mem[i].raised = "" /\ mem[i].after = mem[i].config
            /\ (/\ i > 1
                /\ mem[i - 1].changed
                /\ mem[i - 1].raised # ""
                /\ mem[i].config = mem[i - 1].config) => mem[i].changed

\* a run found the session changed, installed the dependencies and raised
\* when installing the package; the next run, with the same configuration,
\* installed again and saved the configuration
C18_Witness ==
    /\ prog = "Installer"
    /\ Len(mem) = 2
    /\ mem[1].changed /\ mem[1].raised # "" /\ mem[1].steps = 2
    /\ mem[2].config = mem[1].config
    /\ mem[2].changed /\ mem[2].raised = "" /\ mem[2].steps = 2
    /\ world = mem[2].config /\ mem[2].before # world

\* C19: after every call of run_inside_dir so far, whether its command
\* returned, its command failed or the directory could not be entered, the
\* working directory was the one the call started in; the command itself ran
\* in the directory asked for.
C19_WorkingDirectoryRestored ==
    prog = "run_inside_dir" =>
        /\ \A i \in DOMAIN mem :
            /\ mem[i].after = mem[i].before
            /\ mem[i].raised \in {"", "CalledProcessError"} =>
                mem[i].ran_in = mem[i].dirpath
        /\ world = "/repo"

\* a command failed in another directory than the one the call started in,
\* and an earlier call could not enter its directory
C19_Witness ==
    /\ prog = "run_inside_dir"
    /\ Len(mem) >= 2
    /\ mem[1].raised = "FileNotFoundError"
    /\ mem[2].raised = "CalledProcessError"
    /\ mem[2].ran_in = "/tmp/example"
    /\ world = "/repo"

(***************************************************************************)
(* The view as a mapping (checked under SpecContext)                       *)
(***************************************************************************)

\* C20: once the hook has run, and whatever keys the caller has added or
\* changed since: for every key of the context that is not a registered
\* computed key, the view returns the context's value; every key the view
\* yields is contained in the view and its lookup returns a value; and len of
\* the view is the number of keys it yields.
C20_LiveConsistentView ==
    "cookiecutter" \in DOMAIN context =>
        LET yielded == SmartDict_iter(context, computed_keys)
        IN /\ \A k \in DOMAIN context \ DOMAIN computed_keys :
                SmartDict_getitem(context, computed_keys, k, now) = Return(context[k])
           /\ \A k \in DOMAIN yielded :
                /\ SmartDict_contains(context, computed_keys, k)
                /\ SmartDict_getitem(context, computed_keys, k, now).raised = ""
           /\ SmartDict_len(context, computed_keys)
                = Cardinality({p \in (DOMAIN yielded) \X (1..2) : p[2] <= yielded[p[1]]})

====
